---------------------------- MODULE Spec2Model ----------------------------
(***************************************************************************)
(* A model of ciftify/bin/cifti_vis_fmri.py, the `snaps' command: settings *)
(* resolution (UserSettings), the smoothed-file step, the personalisation  *)
(* of the scene template and the writing of one QC page.                   *)
(*                                                                         *)
(* Text (paths, templates, file names) is a sequence of one-character      *)
(* strings, so that str.replace and the os.path functions are modelled on  *)
(* the characters they work on.  The `index' command is not modelled: it   *)
(* builds UserSettings with <subject> and <NameOffMRI> unset.              *)
(***************************************************************************)
EXTENDS Integers, Sequences, FiniteSets, TLC

VARIABLES
    arguments,   \* docopt's result: the options and positionals of the run
    env,         \* the process environment: working directory, symbolic links
    fs,          \* the paths (files and directories) that exist
    pc,          \* the position of the run in main()
    user_settings, \* the fields of UserSettings set so far
    locals,      \* the locals of write_single_qc_page / generate_qc_page
    cmds,        \* the external commands handed to run(), in order
    outcome,     \* how the process ended: error kind, logged path, exit status
    fn           \* the pure-function harness: operation, inputs, result

vars == <<arguments, env, fs, pc, user_settings, locals, cmds, outcome, fn>>

None == <<"None">>

(***************************************************************************)
(* String literals of the source.                                          *)
(***************************************************************************)
s_MNINonLinear == <<"M", "N", "I", "N", "o", "n", "L", "i", "n", "e", "a", "r">>

s_Results == <<"R", "e", "s", "u", "l", "t", "s">>

s_Atlas_s == <<"_", "A", "t", "l", "a", "s", "_", "s">>

s_dtseries_nii == <<".", "d", "t", "s", "e", "r", "i", "e", "s", ".", "n", "i", "i">>

s_T1w_nii_gz == <<"T", "1", "w", ".", "n", "i", "i", ".", "g", "z">>

s_SBRef_nii_gz == <<"_", "S", "B", "R", "e", "f", ".", "n", "i", "i", ".", "g", "z">>

s_nii_gz == <<".", "n", "i", "i", ".", "g", "z">>

s_32k_fs_LR == <<"3", "2", "k", "_", "f", "s", "_", "L", "R">>

s_qc_html == <<"q", "c", ".", "h", "t", "m", "l">>

s_sm == <<"_", "s", "m">>

s_qc == <<"q", "c">>

s_scene == <<".", "s", "c", "e", "n", "e">>

s_L_midthickness == <<".", "L", ".", "m", "i", "d", "t", "h", "i", "c", "k", "n", "e", "s", "s", ".">>

s_R_midthickness == <<".", "R", ".", "m", "i", "d", "t", "h", "i", "c", "k", "n", "e", "s", "s", ".">>

s_surf_gii == <<".", "s", "u", "r", "f", ".", "g", "i", "i">>

sfx_ABSPATH == <<"_", "A", "B", "S", "P", "A", "T", "H">>

sfx_RELPATH == <<"_", "R", "E", "L", "P", "A", "T", "H">>

sfx_BASE == <<"_", "B", "A", "S", "E">>

tok_SURFS_SUBJECT == <<"S", "U", "R", "F", "S", "_", "S", "U", "B", "J", "E", "C", "T">>

tok_SURFS_MESHNAME == <<"S", "U", "R", "F", "S", "_", "M", "E", "S", "H", "N", "A", "M", "E">>

pfx_SURFSDIR == <<"S", "U", "R", "F", "S", "D", "I", "R">>

pfx_T1W == <<"T", "1", "W">>

pfx_SBREF == <<"S", "B", "R", "E", "F">>

pfx_S0DTSERIES == <<"S", "0", "D", "T", "S", "E", "R", "I", "E", "S">>

pfx_SMDTSERIES == <<"S", "M", "D", "T", "S", "E", "R", "I", "E", "S">>

tok_SMDTSERIES_BASENOEXT == <<"S", "M", "D", "T", "S", "E", "R", "I", "E", "S", "_", "B", "A", "S", "E", "N", "O", "E", "X", "T">>

s_Atlas_s0_dtseries_nii == <<"_", "A", "t", "l", "a", "s", "_", "s", "0", ".", "d", "t", "s", "e", "r", "i", "e", "s", ".", "n", "i", "i">>

s_wb_command == <<"w", "b", "_", "c", "o", "m", "m", "a", "n", "d">>

s_scene_tmp == <<"s", "c", "e", "n", "e", "_", "t", "m", "p">>

s_tmp_dir == <<"/", "t", "m", "p", "/", "t">>

s_hcp == <<"/", "h", "c", "p">>

s_qcdir == <<"/", "q", "c">>

s_sub01 == <<"s", "u", "b", "0", "1">>

s_rest == <<"r", "e", "s", "t">>

s_cwd == <<"/", "w">>

s_sub02 == <<"s", "u", "b", "0", "2">>

s_task == <<"t", "a", "s", "k">>

s_T1W_BASE == <<"T", "1", "W", "_", "B", "A", "S", "E">>

s_FOO == <<"F", "O", "O">>

s_link == <<"/", "l">>

s_a_b == <<"/", "a", "/", "b">>

s_a_b_c_nii_gz == <<"/", "a", "/", "b", "/", "c", ".", "n", "i", "i", ".", "g", "z">>

s_l_c_nii_gz == <<"/", "l", "/", "c", ".", "n", "i", "i", ".", "g", "z">>

s_c_nii_gz == <<"c", ".", "n", "i", "i", ".", "g", "z">>

s_up_b == <<".", ".", "/", "b">>

s_a_out_scene_scene == <<"/", "a", "/", "o", "u", "t", "/", "s", "c", "e", "n", "e", ".", "s", "c", "e", "n", "e">>

(***************************************************************************)
(* The(S) is the element of a one-element set.  The({F(x) : x \in {e}}) is *)
(* LET x == e IN F(x) with e evaluated once, which keeps the nested text   *)
(* operations below linear.                                                *)
(***************************************************************************)
The(S) == CHOOSE r \in S : TRUE

Min(S) == CHOOSE i \in S : \A j \in S : i <= j

Max(S) == CHOOSE i \in S : \A j \in S : i >= j

(***************************************************************************)
(* str: startswith, endswith, find, rstrip, replace, split.                *)
(***************************************************************************)
StartsWith(s, p) == Len(s) >= Len(p) /\ SubSeq(s, 1, Len(p)) = p

EndsWith(s, p) == Len(s) >= Len(p) /\ SubSeq(s, Len(s) - Len(p) + 1, Len(s)) = p

\* str.find(old, from): the first position >= from where old starts, 0 when none
Find(text, old, from) ==
    The({IF M = {} THEN 0 ELSE Min(M) :
         M \in {{i \in from..(Len(text) - Len(old) + 1) :
                    text[i] = old[1] /\ SubSeq(text, i, i + Len(old) - 1) = old}}})

\* str.rfind(c) + 1: the position of the last c, 0 when there is none
RFindEnd(s, c) ==
    The({IF M = {} THEN 0 ELSE Max(M) : M \in {{i \in 1..Len(s) : s[i] = c}}})

\* str.rstrip(c)
RStrip(s, c) ==
    The({IF K = {} THEN <<>> ELSE SubSeq(s, 1, Max(K)) : K \in {{i \in 1..Len(s) : s[i] # c}}})

RECURSIVE ReplaceFrom(_, _, _, _)
ReplaceFrom(text, old, new, from) ==
    The({IF m = 0 THEN SubSeq(text, from, Len(text))
         ELSE SubSeq(text, from, m - 1) \o new \o ReplaceFrom(text, old, new, m + Len(old)) :
         m \in {Find(text, old, from)}})

\* str.replace(old, new) for a non-empty old: leftmost, non-overlapping
Replace(text, old, new) ==
    The({ReplaceFrom(t, o, n, 1) : t \in {text}, o \in {old}, n \in {new}})

RECURSIVE Cat(_)
Cat(ss) == IF ss = <<>> THEN <<>> ELSE Head(ss) \o Cat(Tail(ss))

RECURSIVE SplitFrom(_, _)
SplitFrom(p, from) ==
    The({IF m = 0 THEN <<SubSeq(p, from, Len(p))>>
         ELSE <<SubSeq(p, from, m - 1)>> \o SplitFrom(p, m + 1) :
         m \in {Find(p, <<"/">>, from)}})

\* str.split('/')
Split(path) == The({SplitFrom(p, 1) : p \in {path}})

(***************************************************************************)
(* os.path (posixpath).                                                    *)
(***************************************************************************)
sep == <<"/">>

curdir == <<".">>

pardir == <<".", ".">>

IsAbs(p) == StartsWith(p, sep)

\* one step of os.path.join: path joined with the next part b
Join2(a, b) ==
    IF StartsWith(b, sep) THEN b
    ELSE IF a = <<>> \/ EndsWith(a, sep) THEN a \o b
    ELSE a \o sep \o b

RECURSIVE JoinFrom(_, _)
JoinFrom(path, rest) ==
    IF rest = <<>> THEN path
    ELSE The({JoinFrom(joined, Tail(rest)) : joined \in {Join2(path, Head(rest))}})

\* os.path.join(a, *p)
Join(parts) == The({JoinFrom(Head(ps), Tail(ps)) : ps \in {parts}})

\* os.path.split(p)[0], which is os.path.dirname(p)
Dirname(path) ==
    The({IF head # <<>> /\ RStrip(head, "/") # <<>> THEN RStrip(head, "/") ELSE head :
         head \in {SubSeq(path, 1, RFindEnd(path, "/"))}})

\* os.path.basename(p)
Basename(path) == The({SubSeq(p, RFindEnd(p, "/") + 1, Len(p)) : p \in {path}})

RECURSIVE NormComps(_, _, _)
NormComps(comps, acc, rooted) ==
    IF comps = <<>> THEN acc
    ELSE The({NormComps(Tail(comps), next, rooted) :
              next \in {LET c == Head(comps)
                        IN  IF c = <<>> \/ c = curdir THEN acc
                            ELSE IF c # pardir
                                    \/ (~rooted /\ acc = <<>>)
                                    \/ (acc # <<>> /\ acc[Len(acc)] = pardir)
                                 THEN Append(acc, c)
                            ELSE IF acc # <<>> THEN SubSeq(acc, 1, Len(acc) - 1)
                            ELSE acc}})

RECURSIVE JoinSep(_)
JoinSep(comps) ==
    IF comps = <<>> THEN <<>>
    ELSE IF Len(comps) = 1 THEN Head(comps)
    ELSE Head(comps) \o sep \o JoinSep(Tail(comps))

\* os.path.normpath(p)
Normpath(path) ==
    The({LET slashes == IF ~IsAbs(p) THEN <<>>
                        ELSE IF StartsWith(p, <<"/", "/">>) /\ ~StartsWith(p, <<"/", "/", "/">>)
                             THEN <<"/", "/">> ELSE sep
         IN  The({IF p = <<>> \/ slashes \o body = <<>> THEN curdir ELSE slashes \o body :
                  body \in {JoinSep(NormComps(Split(p), <<>>, IsAbs(p)))}}) :
         p \in {path}})

\* os.path.abspath(p), from the working directory cwd
Abspath(p, cwd) == IF IsAbs(p) THEN Normpath(p) ELSE Normpath(Join2(cwd, p))

RECURSIVE JoinRealpath(_, _, _)
JoinRealpath(path, comps, links) ==
    IF comps = <<>> THEN path
    ELSE The({JoinRealpath(next, Tail(comps), links) :
              next \in {LET name == Head(comps)
                            newpath == Join2(path, name)
                        IN  IF name = <<>> \/ name = curdir THEN path
                            ELSE IF name = pardir THEN Dirname(path)
                            ELSE IF newpath \in DOMAIN links
                                 THEN JoinRealpath(IF IsAbs(links[newpath]) THEN sep ELSE path,
                                                   Split(links[newpath]), links)
                            ELSE newpath}})

\* os.path.realpath(p): symbolic links resolved component by component
Realpath(path, e) ==
    The({Abspath(JoinRealpath(IF IsAbs(p) THEN sep ELSE e.cwd, Split(p), e.links), e.cwd) :
         p \in {path}})

NonEmpty(comps) == SelectSeq(comps, LAMBDA c : c # <<>>)

RECURSIVE CommonLen(_, _)
CommonLen(a, b) ==
    IF a = <<>> \/ b = <<>> \/ Head(a) # Head(b) THEN 0
    ELSE 1 + CommonLen(Tail(a), Tail(b))

\* os.path.relpath(path, start)
Relpath(path, start, cwd) ==
    The({LET i == CommonLen(start_list, path_list)
             rel_list == [k \in 1..(Len(start_list) - i) |-> pardir]
                         \o SubSeq(path_list, i + 1, Len(path_list))
         IN  IF rel_list = <<>> THEN curdir ELSE Join(rel_list) :
         start_list \in {NonEmpty(Split(Abspath(start, cwd)))},
         path_list \in {NonEmpty(Split(Abspath(path, cwd)))}})

(***************************************************************************)
(* Results of a call: a value returned, or an exception raised.            *)
(***************************************************************************)
Return(v) == [raised |-> "none", value |-> v, logged |-> None, status |-> 0]

Raise(kind) == [raised |-> kind, value |-> None, logged |-> None, status |-> 1]

\* logger.error(msg containing path); sys.exit(1)
LogAndExit(path) == [raised |-> "SystemExit", value |-> None, logged |-> path, status |-> 1]

\* the truth value of a docopt option value: None and '' are false
Truthy(v) == v # None /\ v # <<>>

(***************************************************************************)
(* UserSettings.                                                           *)
(***************************************************************************)
\* the names bound at module level
module_globals ==
    {"os", "sys", "logging", "nibabel", "np", "docopt", "ciftify", "VisSettings",
     "run", "get_stdout", "config_path", "logger", "UserSettings", "main",
     "write_single_qc_page", "generate_qc_page", "personalize_template",
     "modify_template_contents", "replace_dir_references", "replace_all_references",
     "change_sbref_palette", "get_smoothed_dtseries_file"}

\* the parameters and local names of get_fwhm
get_fwhm_locals == {"self", "arguments", "fwhm", "dtseries_sm"}

\* whether every name of names resolves in a function with these locals
NamesResolve(names, function_locals) == names \subseteq (function_locals \cup module_globals)

\* '<hcp_dir>/<subject>/MNINonLinear/Results/<fmri_name>/<fmri_name>_Atlas_s<fwhm>.dtseries.nii'
results_dtseries(hcp_dir, subject, fmri_name, fwhm) ==
    Join(<<hcp_dir, subject, s_MNINonLinear, s_Results, fmri_name,
           fmri_name \o s_Atlas_s \o fwhm \o s_dtseries_nii>>)

\* get_dtseries_s0 without the existence check
get_dtseries_s0_unchecked(hcp_dir, subject, fmri_name, files) ==
    Return(Join(<<hcp_dir, subject, s_MNINonLinear, s_Results, fmri_name,
                  fmri_name \o s_Atlas_s0_dtseries_nii>>))

get_dtseries_s0(hcp_dir, subject, fmri_name, files) ==
    LET dtseries_s0 == Join(<<hcp_dir, subject, s_MNINonLinear, s_Results, fmri_name,
                              fmri_name \o s_Atlas_s0_dtseries_nii>>)
    IN  IF dtseries_s0 \notin files THEN LogAndExit(dtseries_s0) ELSE Return(dtseries_s0)

get_fwhm(self, args, files) ==
    IF Truthy(args.SmoothingFWHM)
    THEN IF ~NamesResolve({"hcp_dir", "subject", "fmri_name"}, get_fwhm_locals)
         THEN Raise("NameError")
         ELSE LET dtseries_sm == results_dtseries(self.hcp_dir, self.subject,
                                                  self.fmri_name, args.SmoothingFWHM)
              IN  IF dtseries_sm \notin files THEN LogAndExit(dtseries_sm)
                  ELSE Return(args.smooth_conn)
    ELSE Return(args.smooth_conn)

\* VisSettings.__init__: hcp_dir and qc_dir from the options, qc_mode 'fmri'
VisSettings_init(args) == [hcp_dir |-> args.hcp_data_dir, qc_dir |-> args.qcdir]

\* UserSettings.__init__: the settings, or the failure of the first step that fails
UserSettings_init(args, files) ==
    LET base == VisSettings_init(args)
        named == [hcp_dir |-> base.hcp_dir, qc_dir |-> base.qc_dir,
                  fmri_name |-> args.NameOffMRI, subject |-> args.subject]
        s0 == get_dtseries_s0(named.hcp_dir, named.subject, named.fmri_name, files)
        fwhm == get_fwhm(named, args, files)
    IN  IF s0.raised # "none" THEN s0
        ELSE IF fwhm.raised # "none" THEN fwhm
        ELSE Return([hcp_dir |-> named.hcp_dir, qc_dir |-> named.qc_dir,
                     fmri_name |-> named.fmri_name, subject |-> named.subject,
                     dtseries_s0 |-> s0.value, fwhm |-> fwhm.value,
                     surf_mesh |-> s_32k_fs_LR])

(***************************************************************************)
(* The external smoothing step.                                            *)
(***************************************************************************)
DigitValue(c) ==
    CASE c = "0" -> 0 [] c = "1" -> 1 [] c = "2" -> 2 [] c = "3" -> 3 [] c = "4" -> 4
      [] c = "5" -> 5 [] c = "6" -> 6 [] c = "7" -> 7 [] c = "8" -> 8 [] c = "9" -> 9

RECURSIVE ParseNat(_)
ParseNat(s) == IF s = <<>> THEN 0 ELSE 10 * ParseNat(SubSeq(s, 1, Len(s) - 1)) + DigitValue(s[Len(s)])

\* ciftify.utilities.FWHM2Sigma: FWHM / (2 sqrt(2 ln 2)), in thousandths
FWHM2Sigma(fwhm) == (ParseNat(fwhm) * 100000000) \div 235482

surfs_dir_of(us) == Join(<<us.hcp_dir, us.subject, s_MNINonLinear, us.surf_mesh>>)

\* the argument list handed to run() by get_smoothed_dtseries_file
smoothing_command(us, dtseries_sm) ==
    LET Sigma == FWHM2Sigma(us.fwhm)
        surfs_dir == surfs_dir_of(us)
    IN  <<"wb_command", "-cifti-smoothing", us.dtseries_s0, Sigma, Sigma, "COLUMN",
          dtseries_sm,
          "-left-surface",
          Join(<<surfs_dir, us.subject \o s_L_midthickness \o us.surf_mesh \o s_surf_gii>>),
          "-right-surface",
          Join(<<surfs_dir, us.subject \o s_R_midthickness \o us.surf_mesh \o s_surf_gii>>)>>

\* ciftify.utilities.run(cmd): the command is issued; a failing tool is fatal
run(cmd, tool_ok, produces, files) ==
    [cmds |-> <<cmd>>,
     files |-> IF tool_ok THEN files \cup produces ELSE files,
     raised |-> IF tool_ok THEN "none" ELSE "ExternalToolError"]

\* get_smoothed_dtseries_file reusing a scratch file that already exists
get_smoothed_dtseries_file_cached(us, temp_dir, files, tool_ok) ==
    LET pre_dtseries_sm == results_dtseries(us.hcp_dir, us.subject, us.fmri_name, us.fwhm)
        dtseries_sm == Join(<<temp_dir, us.fmri_name \o s_Atlas_s \o us.fwhm \o s_dtseries_nii>>)
        ran == run(smoothing_command(us, dtseries_sm), tool_ok, {dtseries_sm}, files)
    IN  IF pre_dtseries_sm \in files
        THEN [value |-> pre_dtseries_sm, cmds |-> <<>>, files |-> files, raised |-> "none"]
        ELSE IF dtseries_sm \in files
        THEN [value |-> dtseries_sm, cmds |-> <<>>, files |-> files, raised |-> "none"]
        ELSE [value |-> IF ran.raised = "none" THEN dtseries_sm ELSE None,
              cmds |-> ran.cmds, files |-> ran.files, raised |-> ran.raised]

\* get_smoothed_dtseries_file smoothing into the subject's results directory
get_smoothed_dtseries_file_in_place(us, temp_dir, files, tool_ok) ==
    LET pre_dtseries_sm == results_dtseries(us.hcp_dir, us.subject, us.fmri_name, us.fwhm)
        ran == run(smoothing_command(us, pre_dtseries_sm), tool_ok, {pre_dtseries_sm}, files)
    IN  IF pre_dtseries_sm \in files
        THEN [value |-> pre_dtseries_sm, cmds |-> <<>>, files |-> files, raised |-> "none"]
        ELSE [value |-> IF ran.raised = "none" THEN pre_dtseries_sm ELSE None,
              cmds |-> ran.cmds, files |-> ran.files, raised |-> ran.raised]

\* get_smoothed_dtseries_file: the path returned, the commands run, the files after
get_smoothed_dtseries_file(us, temp_dir, files, tool_ok) ==
    LET pre_dtseries_sm == results_dtseries(us.hcp_dir, us.subject, us.fmri_name, us.fwhm)
        dtseries_sm == Join(<<temp_dir, us.fmri_name \o s_Atlas_s \o us.fwhm \o s_dtseries_nii>>)
        ran == run(smoothing_command(us, dtseries_sm), tool_ok, {dtseries_sm}, files)
    IN  IF pre_dtseries_sm \in files
        THEN [value |-> pre_dtseries_sm, cmds |-> <<>>, files |-> files, raised |-> "none"]
        ELSE [value |-> IF ran.raised = "none" THEN dtseries_sm ELSE None,
              cmds |-> ran.cmds, files |-> ran.files, raised |-> ran.raised]

\* change_sbref_palette: the two commands, and the path of the summary volume
change_sbref_palette(us, temp_dir, files, reduce_ok, palette_ok) ==
    LET sbref_nii == Join(<<temp_dir, us.fmri_name \o s_SBRef_nii_gz>>)
        func4D_nii == Join(<<us.hcp_dir, us.subject, s_MNINonLinear, s_Results,
                             us.fmri_name, us.fmri_name \o s_nii_gz>>)
        first == run(<<"wb_command", "-volume-reduce", func4D_nii, "MEAN", sbref_nii>>,
                     reduce_ok, {sbref_nii}, files)
        second == run(<<"wb_command", "-volume-palette", sbref_nii,
                        "MODE_AUTO_SCALE_PERCENTAGE", "-disp-neg", "false",
                        "-disp-zero", "false", "-palette-name", "fidl">>,
                      palette_ok, {}, first.files)
    IN  IF first.raised # "none"
        THEN [value |-> None, cmds |-> first.cmds, files |-> first.files, raised |-> first.raised]
        ELSE [value |-> IF second.raised = "none" THEN sbref_nii ELSE None,
              cmds |-> first.cmds \o second.cmds, files |-> second.files,
              raised |-> second.raised]

(***************************************************************************)
(* The template engine.                                                    *)
(***************************************************************************)
replace_dir_references(template_contents, template_prefix, dir_path, scene_file, e) ==
    The({The({Replace(txt, template_prefix \o sfx_RELPATH,
                      Relpath(file_dirname, Dirname(scene_file), e.cwd)) :
              txt \in {Replace(template_contents, template_prefix \o sfx_ABSPATH, file_dirname)}}) :
         file_dirname \in {Realpath(dir_path, e)}})

\* replace_all_references taking the file itself for its directory
replace_all_references_of_file(template_contents, template_prefix, file_path, scene_file, e) ==
    The({Replace(txt, template_prefix \o sfx_BASE, Basename(file_path)) :
         txt \in {replace_dir_references(template_contents, template_prefix,
                                         file_path, scene_file, e)}})

replace_all_references(template_contents, template_prefix, file_path, scene_file, e) ==
    The({Replace(txt, template_prefix \o sfx_BASE, Basename(file_path)) :
         txt \in {replace_dir_references(template_contents, template_prefix,
                                         Dirname(file_path), scene_file, e)}})

\* the substitutions with the smoothed file given the full set of references
template_passes_full_sm(us, sbref_nii, dtseries_sm) ==
    LET surfs_dir == Join(<<us.hcp_dir, us.subject, s_MNINonLinear, us.surf_mesh>>)
        T1w_nii == Join(<<us.hcp_dir, us.subject, s_MNINonLinear, s_T1w_nii_gz>>)
        dtseries_sm_base_noext == Replace(Basename(dtseries_sm), s_dtseries_nii, <<>>)
    IN  <<[call |-> "replace", token |-> tok_SURFS_SUBJECT, arg |-> us.subject],
          [call |-> "replace", token |-> tok_SURFS_MESHNAME, arg |-> us.surf_mesh],
          [call |-> "replace_dir_references", token |-> pfx_SURFSDIR, arg |-> surfs_dir],
          [call |-> "replace_all_references", token |-> pfx_T1W, arg |-> T1w_nii],
          [call |-> "replace_all_references", token |-> pfx_SBREF, arg |-> sbref_nii],
          [call |-> "replace_all_references", token |-> pfx_S0DTSERIES, arg |-> us.dtseries_s0],
          [call |-> "replace_all_references", token |-> pfx_SMDTSERIES, arg |-> dtseries_sm],
          [call |-> "replace", token |-> tok_SMDTSERIES_BASENOEXT,
           arg |-> dtseries_sm_base_noext]>>

\* the substitutions of modify_template_contents, in the order of the source
template_passes(us, sbref_nii, dtseries_sm) ==
    LET surfs_dir == Join(<<us.hcp_dir, us.subject, s_MNINonLinear, us.surf_mesh>>)
        T1w_nii == Join(<<us.hcp_dir, us.subject, s_MNINonLinear, s_T1w_nii_gz>>)
        dtseries_sm_base == Basename(dtseries_sm)
        dtseries_sm_base_noext == Replace(dtseries_sm_base, s_dtseries_nii, <<>>)
    IN  <<[call |-> "replace", token |-> tok_SURFS_SUBJECT, arg |-> us.subject],
          [call |-> "replace", token |-> tok_SURFS_MESHNAME, arg |-> us.surf_mesh],
          [call |-> "replace_dir_references", token |-> pfx_SURFSDIR, arg |-> surfs_dir],
          [call |-> "replace_all_references", token |-> pfx_T1W, arg |-> T1w_nii],
          [call |-> "replace_all_references", token |-> pfx_SBREF, arg |-> sbref_nii],
          [call |-> "replace_all_references", token |-> pfx_S0DTSERIES, arg |-> us.dtseries_s0],
          [call |-> "replace_dir_references", token |-> pfx_SMDTSERIES,
           arg |-> Dirname(dtseries_sm)],
          [call |-> "replace", token |-> tok_SMDTSERIES_BASENOEXT,
           arg |-> dtseries_sm_base_noext]>>

\* one statement txt = ...(txt, ...) of modify_template_contents
apply_pass(txt, pass, scene_file, e) ==
    CASE pass.call = "replace" -> Replace(txt, pass.token, pass.arg)
      [] pass.call = "replace_dir_references" ->
            replace_dir_references(txt, pass.token, pass.arg, scene_file, e)
      [] pass.call = "replace_all_references" ->
            replace_all_references(txt, pass.token, pass.arg, scene_file, e)

RECURSIVE apply_passes(_, _, _, _)
apply_passes(txt, passes, scene_file, e) ==
    IF passes = <<>> THEN txt
    ELSE The({apply_passes(t, Tail(passes), scene_file, e) :
              t \in {apply_pass(txt, Head(passes), scene_file, e)}})

modify_template_contents(template_contents, us, scene_file, sbref_nii, dtseries_sm, e) ==
    The({apply_passes(template_contents, passes, scene_file, e) :
         passes \in {template_passes(us, sbref_nii, dtseries_sm)}})

\* the path of the scene file personalize_template writes
scene_file_path(output_dir, us) == Join(<<output_dir, s_qc \o <<"f", "m", "r", "i">> \o <<"_">> \o us.subject \o s_scene>>)

(***************************************************************************)
(* write_single_qc_page and generate_qc_page.                              *)
(***************************************************************************)
\* ciftify.utilities.TempSceneDir(hcp_dir): a scratch directory under hcp_dir
TempSceneDir_path(hcp_dir) == Join(<<hcp_dir, s_scene_tmp>>)

\* ciftify.utilities.TempDir(): a scratch directory of the system
TempDir_path == s_tmp_dir

\* shutil.rmtree(d), what the scratch directories do on __exit__
rmtree(files, d) == {p \in files : ~(p = d \/ StartsWith(p, d \o sep))}

qc_dir_path(us) ==
    Join(<<us.qc_dir, us.subject \o <<"_">> \o us.fmri_name \o s_sm \o us.fwhm>>)

qc_html_path(us) == Join(<<qc_dir_path(us), s_qc_html>>)

\* config.get_template_contents(): the scene template of the fmri QC mode
template_contents ==
    tok_SURFS_SUBJECT \o <<" ">> \o pfx_S0DTSERIES \o sfx_RELPATH \o sep
    \o pfx_S0DTSERIES \o sfx_BASE \o <<" ">> \o pfx_SMDTSERIES \o sfx_ABSPATH
    \o sep \o tok_SMDTSERIES_BASENOEXT

\* ciftify.html.add_images(qc_page, qc_dir, images, scene_file): renders the
\* images of the scene file with the external renderer
add_images(renderer_ok) == IF renderer_ok THEN "none" ELSE "ExternalToolError"

\* the with-block of generate_qc_page: open(qc_html, 'w'), then the header and
\* the images are written through the open file
write_qc_html(qc_html, files, open_ok, renderer_ok) ==
    IF ~open_ok THEN [files |-> files, raised |-> "IOError"]
    ELSE [files |-> files \cup {qc_html}, raised |-> add_images(renderer_ok)]

\* control flow without the with-statements: an exception leaves at once
Goto_without_exit(p, raised) ==
    CASE raised /\ p \notin {"exit_temp_dir", "exit_scene_dir"} -> "done"
      [] p = "main"                 -> "enter_scene_dir"
      [] p = "enter_scene_dir"      -> "enter_temp_dir"
      [] p = "enter_temp_dir"       -> "change_sbref_palette"
      [] p = "change_sbref_palette" -> "get_smoothed_dtseries_file"
      [] p = "get_smoothed_dtseries_file" -> "personalize_template"
      [] p = "personalize_template" -> "make_dir"
      [] p = "make_dir"             -> "write_qc_html"
      [] p = "write_qc_html"        -> "exit_temp_dir"
      [] p = "exit_temp_dir"        -> "exit_scene_dir"
      [] p = "exit_scene_dir"       -> "done"

\* where control goes after the step at position p: the two with-statements of
\* write_single_qc_page leave through __exit__ whether or not the body raised
Goto(p, raised) ==
    CASE p = "main"                 -> IF raised THEN "done" ELSE "enter_scene_dir"
      [] p = "enter_scene_dir"      -> IF raised THEN "done" ELSE "enter_temp_dir"
      [] p = "enter_temp_dir"       -> IF raised THEN "exit_scene_dir" ELSE "change_sbref_palette"
      [] p = "change_sbref_palette" -> IF raised THEN "exit_temp_dir" ELSE "get_smoothed_dtseries_file"
      [] p = "get_smoothed_dtseries_file" -> IF raised THEN "exit_temp_dir" ELSE "personalize_template"
      [] p = "personalize_template" -> IF raised THEN "exit_temp_dir" ELSE "make_dir"
      [] p = "make_dir"             -> IF raised THEN "exit_temp_dir" ELSE "write_qc_html"
      [] p = "write_qc_html"        -> "exit_temp_dir"
      [] p = "exit_temp_dir"        -> "exit_scene_dir"
      [] p = "exit_scene_dir"       -> "done"

Running == [raised |-> "none", logged |-> None, status |-> -1]

\* UserSettings before (or without) a successful construction
NoSettings == [hcp_dir |-> None, qc_dir |-> None, fmri_name |-> None, subject |-> None,
               dtseries_s0 |-> None, fwhm |-> None, surf_mesh |-> None]

NoLocals == [scene_dir |-> None, temp_dir |-> None, sbref_nii |-> None,
             dtseries_sm |-> None, scene_file |-> None, scene_text |-> None,
             raised |-> "none"]

\* a step of generate_qc_page ended: remember what it raised, move on
Step(p, raised, new_locals) ==
    /\ pc' = Goto(p, raised # "none")
    /\ locals' = [new_locals EXCEPT !.raised = raised]

\* main(), lines 117-118: the settings are resolved
Main_UserSettings ==
    /\ pc = "main"
    /\ LET r == UserSettings_init(arguments, fs)
       IN  /\ user_settings' = IF r.raised = "none" THEN r.value ELSE NoSettings
           /\ outcome' = IF r.raised = "none" THEN outcome
                         ELSE [raised |-> r.raised, logged |-> r.logged, status |-> r.status]
           /\ pc' = Goto("main", r.raised # "none")
    /\ UNCHANGED <<arguments, env, fs, locals, cmds, fn>>

\* with TempSceneDir(hcp_dir) as scene_dir
EnterSceneDir ==
    /\ pc = "enter_scene_dir"
    /\ \E made \in BOOLEAN :
          LET scene_dir == TempSceneDir_path(user_settings.hcp_dir)
          IN  /\ fs' = IF made THEN fs \cup {scene_dir} ELSE fs
              /\ locals' = IF made THEN [locals EXCEPT !.scene_dir = scene_dir] ELSE locals
              /\ outcome' = IF made THEN outcome
                            ELSE [raised |-> "OSError", logged |-> None, status |-> 1]
              /\ pc' = Goto("enter_scene_dir", ~made)
    /\ UNCHANGED <<arguments, env, user_settings, cmds, fn>>

\* with TempDir() as temp_dir
EnterTempDir ==
    /\ pc = "enter_temp_dir"
    /\ \E made \in BOOLEAN :
          /\ fs' = IF made THEN fs \cup {TempDir_path} ELSE fs
          /\ Step("enter_temp_dir", IF made THEN "none" ELSE "OSError",
                  IF made THEN [locals EXCEPT !.temp_dir = TempDir_path] ELSE locals)
    /\ UNCHANGED <<arguments, env, user_settings, cmds, outcome, fn>>

ChangeSbrefPalette ==
    /\ pc = "change_sbref_palette"
    /\ \E reduce_ok \in BOOLEAN, palette_ok \in BOOLEAN :
          LET r == change_sbref_palette(user_settings, locals.temp_dir, fs, reduce_ok, palette_ok)
          IN  /\ fs' = r.files
              /\ cmds' = cmds \o r.cmds
              /\ Step("change_sbref_palette", r.raised, [locals EXCEPT !.sbref_nii = r.value])
    /\ UNCHANGED <<arguments, env, user_settings, outcome, fn>>

GetSmoothedDtseriesFile ==
    /\ pc = "get_smoothed_dtseries_file"
    /\ \E tool_ok \in BOOLEAN :
          LET r == get_smoothed_dtseries_file(user_settings, locals.temp_dir, fs, tool_ok)
          IN  /\ fs' = r.files
              /\ cmds' = cmds \o r.cmds
              /\ Step("get_smoothed_dtseries_file", r.raised,
                      [locals EXCEPT !.dtseries_sm = r.value])
    /\ UNCHANGED <<arguments, env, user_settings, outcome, fn>>

\* personalize_template: the scene file is opened for writing and written once
PersonalizeTemplate ==
    /\ pc = "personalize_template"
    /\ \E open_ok \in BOOLEAN :
          LET scene_file == scene_file_path(locals.scene_dir, user_settings)
              new_text == modify_template_contents(template_contents, user_settings,
                              scene_file, locals.sbref_nii, locals.dtseries_sm, env)
          IN  /\ fs' = IF open_ok THEN fs \cup {scene_file} ELSE fs
              /\ Step("personalize_template", IF open_ok THEN "none" ELSE "IOError",
                      IF open_ok
                      THEN [locals EXCEPT !.scene_file = scene_file, !.scene_text = new_text]
                      ELSE locals)
    /\ UNCHANGED <<arguments, env, user_settings, cmds, outcome, fn>>

\* ciftify.utilities.make_dir(qc_dir)
MakeDir ==
    /\ pc = "make_dir"
    /\ \E made \in BOOLEAN :
          /\ fs' = IF made THEN fs \cup {qc_dir_path(user_settings)} ELSE fs
          /\ Step("make_dir", IF made THEN "none" ELSE "OSError", locals)
    /\ UNCHANGED <<arguments, env, user_settings, cmds, outcome, fn>>

\* generate_qc_page, lines 156-159
WriteQcHtml ==
    /\ pc = "write_qc_html"
    /\ \E open_ok \in BOOLEAN, renderer_ok \in BOOLEAN :
          LET r == write_qc_html(qc_html_path(user_settings), fs, open_ok, renderer_ok)
          IN  /\ fs' = r.files
              /\ Step("write_qc_html", r.raised, locals)
    /\ UNCHANGED <<arguments, env, user_settings, cmds, outcome, fn>>

\* TempDir.__exit__
ExitTempDir ==
    /\ pc = "exit_temp_dir"
    /\ fs' = rmtree(fs, locals.temp_dir)
    /\ pc' = Goto("exit_temp_dir", locals.raised # "none")
    /\ UNCHANGED <<arguments, env, user_settings, locals, cmds, outcome, fn>>

\* TempSceneDir.__exit__, then main() returns or the exception ends the process
ExitSceneDir ==
    /\ pc = "exit_scene_dir"
    /\ fs' = rmtree(fs, locals.scene_dir)
    /\ pc' = Goto("exit_scene_dir", locals.raised # "none")
    /\ outcome' = IF locals.raised = "none"
                  THEN [raised |-> "none", logged |-> None, status |-> 0]
                  ELSE [raised |-> locals.raised, logged |-> None, status |-> 1]
    /\ UNCHANGED <<arguments, env, user_settings, locals, cmds, fn>>

(***************************************************************************)
(* One run of `cifti_vis_fmri snaps'.                                      *)
(***************************************************************************)
HcpDirs == {s_hcp}

Subjects == {s_sub01, s_sub02}

Runs == {s_rest, s_task}

\* --SmoothingFWHM: not given, or a width
RequestedWidths == {None, <<"4">>}

\* --smooth-conn: the default 8, or a width given
DefaultWidths == {<<"8">>, <<"6">>}

AllWidths == (RequestedWidths \ {None}) \cup DefaultWidths

\* the input files that may or may not exist before the run
InputFiles(args) ==
    {Join(<<args.hcp_data_dir, args.subject, s_MNINonLinear, s_Results, args.NameOffMRI,
            args.NameOffMRI \o s_Atlas_s0_dtseries_nii>>)}
    \cup {results_dtseries(args.hcp_data_dir, args.subject, args.NameOffMRI, w) : w \in AllWidths}

PlainEnv == [cwd |-> s_cwd, links |-> [p \in {} |-> <<>>]]

Init ==
    /\ arguments \in [hcp_data_dir : HcpDirs, qcdir : {s_qcdir}, NameOffMRI : Runs,
                      subject : Subjects, SmoothingFWHM : RequestedWidths,
                      smooth_conn : DefaultWidths]
    /\ env = PlainEnv
    /\ fs \in SUBSET InputFiles(arguments)
    /\ pc = "main"
    /\ user_settings = NoSettings
    /\ locals = NoLocals
    /\ cmds = <<>>
    /\ outcome = Running
    /\ fn = None

Next ==
    \/ Main_UserSettings
    \/ EnterSceneDir
    \/ EnterTempDir
    \/ ChangeSbrefPalette
    \/ GetSmoothedDtseriesFile
    \/ PersonalizeTemplate
    \/ MakeDir
    \/ WriteQcHtml
    \/ ExitTempDir
    \/ ExitSceneDir

Spec == Init /\ [][Next]_vars

(***************************************************************************)
(* get_smoothed_dtseries_file called repeatedly with the same settings and *)
(* the same scratch directory.                                             *)
(***************************************************************************)
MaxCalls == 2

\* the settings UserSettings resolves when every input exists
ResolvedSettings(args) == UserSettings_init(args, InputFiles(args)).value

InitSmooth ==
    /\ arguments \in [hcp_data_dir : HcpDirs, qcdir : {s_qcdir}, NameOffMRI : Runs,
                      subject : Subjects, SmoothingFWHM : {None},
                      smooth_conn : AllWidths]
    /\ env = PlainEnv
    /\ \E precomputed \in BOOLEAN :
          fs = {get_dtseries_s0(arguments.hcp_data_dir, arguments.subject,
                                arguments.NameOffMRI, InputFiles(arguments)).value,
                TempDir_path}
               \cup (IF precomputed
                     THEN {results_dtseries(arguments.hcp_data_dir, arguments.subject,
                                            arguments.NameOffMRI, arguments.smooth_conn)}
                     ELSE {})
    /\ pc = "harness"
    /\ user_settings = ResolvedSettings(arguments)
    /\ locals = [NoLocals EXCEPT !.temp_dir = TempDir_path]
    /\ cmds = <<>>
    /\ outcome = Running
    /\ fn = [op |-> "get_smoothed_dtseries_file", calls |-> <<>>]

CallGetSmoothed ==
    /\ pc = "harness"
    /\ fn.op = "get_smoothed_dtseries_file"
    /\ Len(fn.calls) < MaxCalls
    /\ \E tool_ok \in BOOLEAN :
          LET r == get_smoothed_dtseries_file(user_settings, locals.temp_dir, fs, tool_ok)
          IN  /\ fs' = r.files
              /\ cmds' = cmds \o r.cmds
              /\ fn' = [fn EXCEPT !.calls = Append(@, [value |-> r.value, raised |-> r.raised,
                                                      ran |-> Len(r.cmds)])]
    /\ UNCHANGED <<arguments, env, pc, user_settings, locals, outcome>>

NextSmooth == CallGetSmoothed

SpecSmooth == InitSmooth /\ [][NextSmooth]_vars

(***************************************************************************)
(* The template engine applied to templates made of placeholder tokens and *)
(* literal text.                                                           *)
(***************************************************************************)
MaxPieces == 3

\* tokens of the replacement table, tokens outside it, and literal text
KnownPieces ==
    {pfx_T1W \o sfx_ABSPATH, pfx_T1W \o sfx_RELPATH, pfx_T1W \o sfx_BASE,
     tok_SMDTSERIES_BASENOEXT}

UnknownPieces == {pfx_SMDTSERIES \o sfx_BASE, s_FOO \o sfx_ABSPATH}

LiteralPieces == {sep}

Pieces == KnownPieces \cup UnknownPieces \cup LiteralPieces

Templates == UNION {[1..n -> Pieces] : n \in 0..MaxPieces}

\* a working directory, and /l a symbolic link to /a/b
LinkedEnv == [cwd |-> s_cwd, links |-> [p \in {s_link} |-> s_a_b]]

\* subject IDs: an ordinary one, and one that spells a placeholder
TemplateSubjects == {s_sub01, s_T1W_BASE}

ReferencePrefixes == {pfx_T1W}

ReferenceFiles == {s_a_b_c_nii_gz, s_l_c_nii_gz}

SceneFiles == {s_a_out_scene_scene}

InitTemplate ==
    /\ arguments \in [hcp_data_dir : HcpDirs, qcdir : {s_qcdir}, NameOffMRI : {s_rest},
                      subject : {s_sub01}, SmoothingFWHM : {None},
                      smooth_conn : {<<"8">>}]
    /\ env = LinkedEnv
    /\ fs = {}
    /\ pc = "harness"
    /\ user_settings = ResolvedSettings(arguments)
    /\ locals = NoLocals
    /\ cmds = <<>>
    /\ outcome = Running
    /\ \E pieces \in Templates :
          fn = [op |-> "none", pieces |-> pieces, args |-> <<>>, result |-> None]

CallReplaceDirReferences ==
    /\ pc = "harness"
    /\ fn.op = "none"
    /\ \E R \in ReferencePrefixes, P \in ReferenceFiles, S \in SceneFiles :
          fn' = [fn EXCEPT !.op = "replace_dir_references",
                           !.args = <<R, Dirname(P), S>>,
                           !.result = replace_dir_references(Cat(fn.pieces), R,
                                                              Dirname(P), S, env)]
    /\ UNCHANGED <<arguments, env, fs, pc, user_settings, locals, cmds, outcome>>

CallReplaceAllReferences ==
    /\ pc = "harness"
    /\ fn.op = "none"
    /\ \E R \in ReferencePrefixes, P \in ReferenceFiles, S \in SceneFiles :
          fn' = [fn EXCEPT !.op = "replace_all_references",
                           !.args = <<R, P, S>>,
                           !.result = replace_all_references(Cat(fn.pieces), R, P, S, env)]
    /\ UNCHANGED <<arguments, env, fs, pc, user_settings, locals, cmds, outcome>>

\* the arguments generate_qc_page hands to the template engine
template_args(us) ==
    <<scene_file_path(TempSceneDir_path(us.hcp_dir), us),
      Join(<<TempDir_path, us.fmri_name \o s_SBRef_nii_gz>>),
      Join(<<TempDir_path, us.fmri_name \o s_Atlas_s \o us.fwhm \o s_dtseries_nii>>)>>

CallModifyTemplateContents ==
    /\ pc = "harness"
    /\ fn.op = "none"
    /\ \E subject \in TemplateSubjects :
          LET us == ResolvedSettings([arguments EXCEPT !.subject = subject])
              a == template_args(us)
          IN  fn' = [fn EXCEPT !.op = "modify_template_contents",
                               !.args = <<us, a[1], a[2], a[3]>>,
                               !.result = modify_template_contents(Cat(fn.pieces),
                                              us, a[1], a[2], a[3], env)]
    /\ UNCHANGED <<arguments, env, fs, pc, user_settings, locals, cmds, outcome>>

NextTemplate ==
    \/ CallReplaceDirReferences
    \/ CallReplaceAllReferences
    \/ CallModifyTemplateContents

SpecTemplate == InitTemplate /\ [][NextTemplate]_vars

(***************************************************************************)
(* The properties.  The expected paths are spelled out from the layout     *)
(* <root>/<subject>/MNINonLinear/Results/<run>/<run>_Atlas_s<width>.dtseries.nii *)
(***************************************************************************)
ResultsDir(args) ==
    Cat(<<args.hcp_data_dir, sep, args.subject, sep, s_MNINonLinear, sep, s_Results, sep,
          args.NameOffMRI>>)

ExpectedAtlas(args, width) ==
    Cat(<<ResultsDir(args), sep, args.NameOffMRI, s_Atlas_s, width, s_dtseries_nii>>)

ExpectedScratch(args, width) ==
    Cat(<<TempDir_path, sep, args.NameOffMRI, s_Atlas_s, width, s_dtseries_nii>>)

Under(p, d) == p = d \/ StartsWith(p, d \o sep)

SettingsResolved == user_settings # NoSettings

SmoothingCmds == SelectSeq(cmds, LAMBDA c : c[2] = "-cifti-smoothing")

\* the smoothed-file step of the run has been taken
SmoothingStepTaken == locals.sbref_nii # None /\ pc # "get_smoothed_dtseries_file"

\* C1: whenever qc.html exists, every upstream step of the run, the renderer
\* included, has succeeded; a run in which a step failed leaves no qc.html.
C1_NoPartialPage ==
    (SettingsResolved /\ qc_html_path(user_settings) \in fs)
        => (locals.raised = "none" /\ pc \in {"exit_temp_dir", "exit_scene_dir", "done"})

\* C2: with --SmoothingFWHM given and its precomputed file absent, settings
\* resolution ends with the missing-input error (the expected path logged, exit
\* status 1), before any external command.
C2_MissingSmoothedFails ==
    (/\ pc # "main"
     /\ Truthy(arguments.SmoothingFWHM)
     /\ ExpectedAtlas(arguments, <<"0">>) \in fs
     /\ ExpectedAtlas(arguments, arguments.SmoothingFWHM) \notin fs)
        => /\ outcome = [raised |-> "SystemExit",
                         logged |-> ExpectedAtlas(arguments, arguments.SmoothingFWHM),
                         status |-> 1]
           /\ cmds = <<>>

\* C3: get_fwhm succeeds exactly when no width was requested or the requested
\* width's precomputed file exists, and then returns the default width.
C3_FwhmResolution ==
    (pc # "main" /\ ExpectedAtlas(arguments, <<"0">>) \in fs)
        => /\ SettingsResolved
                <=> (~Truthy(arguments.SmoothingFWHM)
                     \/ ExpectedAtlas(arguments, arguments.SmoothingFWHM) \in fs)
           /\ SettingsResolved => user_settings.fwhm = arguments.smooth_conn

\* C4: once settings resolution has run: if <run>_Atlas_s0.dtseries.nii exists,
\* the run is not ended for it and the resolved path is exactly that path; if it
\* does not, the run has ended with the missing-input error and exit status 1,
\* no external command was run and no scratch directory was acquired.
C4_UnsmoothedPath ==
    pc # "main"
        => IF ExpectedAtlas(arguments, <<"0">>) \in fs
           THEN /\ outcome.logged # ExpectedAtlas(arguments, <<"0">>)
                /\ SettingsResolved
                      => user_settings.dtseries_s0 = ExpectedAtlas(arguments, <<"0">>)
           ELSE /\ pc = "done"
                /\ outcome = [raised |-> "SystemExit",
                              logged |-> ExpectedAtlas(arguments, <<"0">>),
                              status |-> 1]
                /\ ~SettingsResolved
                /\ cmds = <<>>
                /\ locals = NoLocals
                /\ \A p \in fs : ~Under(p, TempDir_path)
                                 /\ ~Under(p, TempSceneDir_path(arguments.hcp_data_dir))

C4_Witness ==
    /\ pc = "done"
    /\ outcome.raised = "SystemExit"
    /\ ExpectedAtlas(arguments, <<"0">>) \notin fs

\* C5 as claimed: after a first call that produced the scratch file, a second
\* call runs no command and returns the same path.
C5_SecondCallReusesScratch ==
    (/\ fn.op = "get_smoothed_dtseries_file"
     /\ Len(fn.calls) >= 2
     /\ ExpectedAtlas(arguments, user_settings.fwhm) \notin fs
     /\ fn.calls[1].raised = "none")
        => /\ fn.calls[2].ran = 0
           /\ fn.calls[2].raised = "none" => fn.calls[2].value = fn.calls[1].value

\* C5 as amended: with no precomputed file, every call runs the smoothing
\* command once, with the same arguments, and every call that returns returns
\* the same scratch path.
C5_EveryCallSmoothsAgain ==
    (/\ fn.op = "get_smoothed_dtseries_file"
     /\ ExpectedAtlas(arguments, user_settings.fwhm) \notin fs)
        => /\ Len(cmds) = Len(fn.calls)
           /\ \A i \in 1..Len(fn.calls) :
                 /\ fn.calls[i].ran = 1
                 /\ cmds[i] = cmds[1]
                 /\ cmds[i][7] = ExpectedScratch(arguments, user_settings.fwhm)
                 /\ fn.calls[i].raised = "none"
                       => fn.calls[i].value = ExpectedScratch(arguments, user_settings.fwhm)

C5_Witness ==
    /\ fn.op = "get_smoothed_dtseries_file"
    /\ Len(fn.calls) = 2
    /\ ExpectedAtlas(arguments, user_settings.fwhm) \notin fs
    /\ fn.calls[1].raised = "none"
    /\ fn.calls[2].raised = "none"
    /\ ExpectedScratch(arguments, user_settings.fwhm) \in fs

\* C6: after the smoothed-file step: if the precomputed file exists it is what
\* the step returned, no smoothing command was run and no scratch file made;
\* otherwise exactly one smoothing command was run, on the unsmoothed file, with
\* one sigma for both dimensions and the scratch path as output, and the path
\* returned is that scratch path, under the scratch directory and not under the
\* subject's results directory.
C6_EnsureSmoothed ==
    SmoothingStepTaken
        => IF ExpectedAtlas(arguments, user_settings.fwhm) \in fs
           THEN /\ locals.dtseries_sm = ExpectedAtlas(arguments, user_settings.fwhm)
                /\ SmoothingCmds = <<>>
                /\ ExpectedScratch(arguments, user_settings.fwhm) \notin fs
           ELSE /\ Len(SmoothingCmds) = 1
                /\ SmoothingCmds[1][1] = "wb_command"
                /\ SmoothingCmds[1][3] = ExpectedAtlas(arguments, <<"0">>)
                /\ SmoothingCmds[1][4] = SmoothingCmds[1][5]
                /\ SmoothingCmds[1][7] = ExpectedScratch(arguments, user_settings.fwhm)
                /\ locals.dtseries_sm # None
                      => /\ locals.dtseries_sm = ExpectedScratch(arguments, user_settings.fwhm)
                         /\ Under(locals.dtseries_sm, TempDir_path)
                         /\ ~Under(locals.dtseries_sm, ResultsDir(arguments))

C6_Witness ==
    /\ SmoothingStepTaken
    /\ ExpectedAtlas(arguments, user_settings.fwhm) \notin fs
    /\ locals.dtseries_sm = ExpectedScratch(arguments, user_settings.fwhm)
    /\ Len(SmoothingCmds) = 1

\* C7: when the run has ended, neither scratch directory, nor anything under
\* them, exists, whether generate_qc_page returned or raised.
C7_ScratchReleased ==
    pc = "done"
        => \A p \in fs : /\ ~Under(p, TempDir_path)
                         /\ ~Under(p, TempSceneDir_path(arguments.hcp_data_dir))

C7_Witness ==
    /\ pc = "done"
    /\ locals.raised # "none"
    /\ locals.scene_dir # None
    /\ locals.temp_dir # None
    /\ locals.sbref_nii # None

(***************************************************************************)
(* The template engine.                                                    *)
(***************************************************************************)
Occurs(text, token) ==
    \E i \in 1..(Len(text) - Len(token) + 1) :
        text[i] = token[1] /\ SubSeq(text, i, i + Len(token) - 1) = token

\* what each piece of a template becomes for reference R bound to file P, scene S
FullReferenceValue(piece, R, P, S) ==
    CASE piece = R \o sfx_ABSPATH -> Realpath(Dirname(P), env)
      [] piece = R \o sfx_RELPATH -> Relpath(Realpath(Dirname(P), env), Dirname(S), env.cwd)
      [] piece = R \o sfx_BASE    -> Basename(P)
      [] OTHER -> piece

\* the example: P = /a/b/c.nii.gz or its alias /l/c.nii.gz, S = /a/out/scene.scene
ExampleValue(piece, R) ==
    CASE piece = R \o sfx_ABSPATH -> s_a_b
      [] piece = R \o sfx_RELPATH -> s_up_b
      [] piece = R \o sfx_BASE    -> s_c_nii_gz
      [] OTHER -> piece

TokensOf(op, args) ==
    CASE op = "replace_dir_references" -> {args[1] \o sfx_ABSPATH, args[1] \o sfx_RELPATH}
      [] op = "replace_all_references" ->
            {args[1] \o sfx_ABSPATH, args[1] \o sfx_RELPATH, args[1] \o sfx_BASE}
      [] op = "modify_template_contents" ->
            {tok_SURFS_SUBJECT, tok_SURFS_MESHNAME, tok_SMDTSERIES_BASENOEXT}
            \cup {R \o sfx : R \in {pfx_SURFSDIR, pfx_T1W, pfx_SBREF, pfx_S0DTSERIES, pfx_SMDTSERIES},
                             sfx \in {sfx_ABSPATH, sfx_RELPATH}}
            \cup {R \o sfx_BASE : R \in {pfx_T1W, pfx_SBREF, pfx_S0DTSERIES}}
      [] OTHER -> {}

\* the template with the text between its unknown tokens personalised on its
\* own and every unknown token left where it is
RECURSIVE AroundUnknown(_, _)
AroundUnknown(pieces, a) ==
    The({IF K = {} THEN modify_template_contents(Cat(pieces), a[1], a[2], a[3], a[4], env)
         ELSE modify_template_contents(Cat(SubSeq(pieces, 1, Min(K) - 1)),
                                        a[1], a[2], a[3], a[4], env)
              \o pieces[Min(K)]
              \o AroundUnknown(SubSeq(pieces, Min(K) + 1, Len(pieces)), a) :
         K \in {{i \in 1..Len(pieces) : pieces[i] \in UnknownPieces}}})

TableOfPass(pass, scene_file) ==
    LET dir_path == IF pass.call = "replace_all_references" THEN Dirname(pass.arg) ELSE pass.arg
        file_dirname == Realpath(dir_path, env)
    IN  CASE pass.call = "replace" -> {<<pass.token, pass.arg>>}
          [] OTHER ->
              {<<pass.token \o sfx_ABSPATH, file_dirname>>,
               <<pass.token \o sfx_RELPATH, Relpath(file_dirname, Dirname(scene_file), env.cwd)>>}
              \cup (IF pass.call = "replace_all_references"
                    THEN {<<pass.token \o sfx_BASE, Basename(pass.arg)>>} ELSE {})

ReplacementTable(a) ==
    The({UNION {TableOfPass(passes[i], a[2]) : i \in 1..Len(passes)} :
         passes \in {template_passes(a[1], a[3], a[4])}})

\* every token of the text replaced at once, in one scan from the left
RECURSIVE Simultaneous(_, _, _)
Simultaneous(text, table, from) ==
    The({IF M = {} THEN SubSeq(text, from, Len(text))
         ELSE The({SubSeq(text, from, m - 1) \o e[2]
                   \o Simultaneous(text, table, m + Len(e[1])) :
                   m \in {Min({x[1] : x \in M})},
                   e \in {The({x[2] : x \in {y \in M : \A z \in M : y[1] <= z[1]}})}}) :
         M \in {{<<i, e>> \in (from..Len(text)) \X table :
                    /\ i + Len(e[1]) - 1 <= Len(text)
                    /\ text[i] = e[1][1]
                    /\ SubSeq(text, i, i + Len(e[1]) - 1) = e[1]}}})

\* C10: the text the passes produce in sequence is the text with every token
\* of the template replaced at once.
C10_OrderIndependent ==
    fn.op = "modify_template_contents"
        => fn.result = Simultaneous(Cat(fn.pieces), ReplacementTable(fn.args), 1)

=============================================================================
